---- MODULE Spec2Model ----
(***************************************************************************)
(* Invoice extraction pipeline of fastapi-azure-app.                       *)
(*                                                                         *)
(* Spec      : process_invoice_with_gpt for one file (extraction, pages,   *)
(*             concurrent send_to_gpt tasks with retries, reconciliation). *)
(* SpecChunk : the line chunker of process_large_content on bounded texts. *)
(* SpecMulti : several process_invoice_with_gpt invocations interleaved at *)
(*             their await points.                                         *)
(* SpecStore : CosmosDBManager.store_invoices against one container.       *)
(* SpecLive  : the steps of Spec under fairness, for termination.          *)
(* SpecBatch : the process-invoice endpoint over a batch of uploaded files.*)
(* SpecRace  : two store_invoices calls for one user, interleaved.         *)
(* SpecMgr   : concurrent get_cosmos_manager calls.                        *)
(***************************************************************************)
EXTENDS Integers, Sequences, FiniteSets, TLC

VARIABLES pc, pageNum, large, tasks, order, results, idx,
          cur, out, ret, stream, starts, skipNull,
          cpc, text, chunkSize, lineQ, currentChunk, currentSize, chunks,
          chunkLens,
          inv, frames, alone, nFed,
          db, db0, req, spc, attempt, userDoc, waits, log, sret,
          bpc, nUploaded, fileNo, all_invoices, processed_files, failed_files,
          response, invoked, yielded,
          cdb, cdb0, callers,
          manager, getters, created

vars == <<pc, pageNum, large, tasks, order, results, idx,
          cur, out, ret, stream, starts, skipNull,
          cpc, text, chunkSize, lineQ, currentChunk, currentSize, chunks,
          chunkLens,
          inv, frames, alone, nFed,
          db, db0, req, spc, attempt, userDoc, waits, log, sret,
          bpc, nUploaded, fileNo, all_invoices, processed_files, failed_files,
          response, invoked, yielded,
          cdb, cdb0, callers,
          manager, getters, created>>

pipeVars == <<pc, pageNum, large, tasks, order, results, idx,
              cur, out, ret, stream, starts, skipNull>>

chunkVars == <<cpc, text, chunkSize, lineQ, currentChunk, currentSize, chunks,
               chunkLens>>

multiVars == <<inv, frames, alone, nFed>>

storeVars == <<db, db0, req, spc, attempt, userDoc, waits, log, sret>>

batchVars == <<bpc, nUploaded, fileNo, all_invoices, processed_files,
               failed_files, response, invoked, yielded>>

raceVars == <<cdb, cdb0, callers>>

mgrVars == <<manager, getters, created>>

restVars == <<batchVars, raceVars, mgrVars>>

(***************************************************************************)
(* Bounds                                                                  *)
(***************************************************************************)
MaxPages == 2

MaxChunks == 2

MaxStream == 3

MaxText == 4

MaxSize == 4

MaxFiles == 2

MaxStored == 2

MaxBatch == 2

MaxYield == 2

MaxCalls == 2

(***************************************************************************)
(* Program constants                                                       *)
(***************************************************************************)
Retries == 3

InitialDelay == 1

max_retries == 3

base_delay == 1

(***************************************************************************)
(* Values: Python None and dicts with the keys the reconciler reads.       *)
(* A dict is the set of keys it has plus the value of each key; the value  *)
(* of an absent key is normalised so that equal dicts are equal records.   *)
(***************************************************************************)
KNum == "Invoice Number"

KItems == "List of Items"

KTotal == "Total"

NoneV == [kind |-> "none", keys |-> {}, num |-> "", items |-> <<>>, total |-> 0]

Dict(keys, n, i, t) ==
    [kind  |-> "dict",
     keys  |-> keys,
     num   |-> IF KNum \in keys THEN n ELSE "",
     items |-> IF KItems \in keys THEN i ELSE <<>>,
     total |-> IF KTotal \in keys THEN t ELSE 0]

\* Python truthiness of a parse result: None and the empty dict are falsy.
Truthy(v) == v.kind = "dict" /\ v.keys # {}

\* d.get('Invoice Number'): the value, or None when the key is absent.
GetNum(d) == IF KNum \in d.keys THEN d.num ELSE "None"

\* d.get('List of Items', [])
GetItems(d) == IF KItems \in d.keys THEN d.items ELSE <<>>

\* truthiness of d.get('Total'): absent and 0 are falsy.
TotalTruthy(d) == KTotal \in d.keys /\ d.total # 0

(***************************************************************************)
(* What the completion service can answer (parsed JSON objects).           *)
(***************************************************************************)
\* Records without a 'Total': the empty record, records lacking the number,
\* the item list or both, and numbered records with item lists.
ItemRecs ==
    { Dict({}, "", <<>>, 0),
      Dict({KItems}, "", <<"a">>, 0),
      Dict({KNum}, "1", <<>>, 0),
      Dict({KNum, KItems}, "1", <<"a">>, 0),
      Dict({KNum, KItems}, "1", <<"b">>, 0),
      Dict({KNum, KItems}, "2", <<"b">>, 0) }

\* Records of invoice "1" with a 'Total': 0 (the template's placeholder), 5, 7;
\* and a record that has a 'Total' but neither number nor item list.
TotalRecs ==
    { Dict({KNum, KItems, KTotal}, "1", <<"a">>, t) : t \in {0, 5, 7} }
        \cup { Dict({KTotal}, "", <<>>, 5) }

Records == ItemRecs \cup TotalRecs

\* Outcome of one chat.completions.create call: it raises, it returns a
\* response without choices, or it returns a message whose cleaned content
\* is malformed text or the JSON text of a record.
Outcomes ==
    {[tag |-> "raise", val |-> NoneV], [tag |-> "nochoices", val |-> NoneV],
     [tag |-> "garbage", val |-> NoneV]}
        \cup { [tag |-> "json", val |-> r] : r \in Records }

\* parse_json_safely: json.loads of the content, None on JSONDecodeError.
parse_json_safely(o) == IF o.tag = "json" THEN o.val ELSE NoneV

(***************************************************************************)
(* send_to_gpt: one task per chunk.  A task is ready to issue attempt      *)
(* number `attempt` (0-based), sleeps between attempts, or is done.        *)
(* calls and last are history: calls made so far, outcome of the last one. *)
(***************************************************************************)
NewTask ==
    [st |-> "ready", attempt |-> 0, delay |-> InitialDelay, result |-> NoneV,
     calls |-> 0, last |-> "none"]

\* A finished coroutine is its return value; last keeps the outcome of its
\* final call.
Done(v, tag) ==
    [st |-> "done", attempt |-> 0, delay |-> 0, result |-> v,
     calls |-> 0, last |-> tag]

\* One pass through the loop body: the awaited create call has outcome o.
send_to_gpt(t, o) ==
    LET t1 == [t EXCEPT !.calls = @ + 1, !.last = o.tag] IN
    CASE o.tag = "raise" ->
            IF t.attempt = Retries - 1
            THEN Done(NoneV, o.tag)
            ELSE [t1 EXCEPT !.st = "sleep"]
      [] o.tag = "nochoices" ->
            IF t.attempt + 1 < Retries
            THEN [t1 EXCEPT !.attempt = @ + 1]
            ELSE Done(NoneV, o.tag)
      [] OTHER -> Done(parse_json_safely(o), o.tag)

\* Variant: a failed attempt is not counted (retry until success).
after_sleep_uncounted(t) ==
    [t EXCEPT !.st = "ready", !.delay = @ * 2]

\* asyncio.sleep(delay) is over: delay *= 2 and the loop goes on.
after_sleep(t) ==
    [t EXCEPT !.st = "ready", !.attempt = @ + 1, !.delay = @ * 2]

\* Variant: results collected in completion order (as with as_completed).
gather_as_completed(ts) == [k \in 1..Len(ts) |-> ts[order[k]].result]

\* asyncio.gather(*tasks): results in the order of the tasks.
gather(ts) == [i \in 1..Len(ts) |-> ts[i].result]

(***************************************************************************)
(* Reconciliation                                                          *)
(***************************************************************************)
merge_invoice_items(current, new_items) ==
    IF new_items = <<>> THEN current
    ELSE IF current = <<>> THEN new_items
    ELSE current \o new_items

Raised == [cur |-> NoneV, out |-> <<>>, raised |-> TRUE]

\* Variant: a total already set is kept (first write wins).
MergeLarge_FirstTotalWins(c, result) ==
    LET m == [c EXCEPT !.items = merge_invoice_items(c.items, GetItems(result))]
    IN IF TotalTruthy(result) /\ KTotal \notin c.keys
       THEN [m EXCEPT !.keys = @ \cup {KTotal}, !.total = result.total]
       ELSE m

\* Oversized branch, same invoice number: the items are merged into the
\* current invoice and a truthy 'Total' replaces its total.
MergeLarge(c, result) ==
    LET m == [c EXCEPT !.items = merge_invoice_items(c.items, GetItems(result))]
    IN IF TotalTruthy(result)
       THEN [m EXCEPT !.keys = @ \cup {KTotal}, !.total = result.total]
       ELSE m

\* Variant: a falsy result ends the current invoice.
ReconcileLarge_NullFinalizes(c, o, result) ==
    IF Truthy(result)
    THEN IF Truthy(c)
         THEN IF GetNum(result) = GetNum(c)
              THEN IF KItems \notin c.keys
                   THEN Raised
                   ELSE [cur |-> MergeLarge(c, result), out |-> o, raised |-> FALSE]
              ELSE [cur |-> result, out |-> Append(o, c), raised |-> FALSE]
         ELSE [cur |-> result, out |-> o, raised |-> FALSE]
    ELSE IF Truthy(c)
         THEN [cur |-> NoneV, out |-> Append(o, c), raised |-> FALSE]
         ELSE [cur |-> c, out |-> o, raised |-> FALSE]

\* Body of `for result in results` in the oversized branch.
\* current_invoice['List of Items'] raises KeyError when the key is absent.
ReconcileLarge(c, o, result) ==
    IF Truthy(result)
    THEN IF Truthy(c)
         THEN IF GetNum(result) = GetNum(c)
              THEN IF KItems \notin c.keys
                   THEN Raised
                   ELSE [cur |-> MergeLarge(c, result), out |-> o, raised |-> FALSE]
              ELSE [cur |-> result, out |-> Append(o, c), raised |-> FALSE]
         ELSE [cur |-> result, out |-> o, raised |-> FALSE]
    ELSE [cur |-> c, out |-> o, raised |-> FALSE]

\* Normal-sized branch, same invoice number.
MergeNormal(c, result) ==
    LET m == [c EXCEPT !.items = merge_invoice_items(c.items, GetItems(result))]
    IN IF TotalTruthy(result)
       THEN [m EXCEPT !.keys = @ \cup {KTotal}, !.total = result.total]
       ELSE m

\* The same steps as written in the normal-sized branch.
ReconcileNormal(c, o, result) ==
    IF Truthy(result)
    THEN IF Truthy(c)
         THEN IF GetNum(result) = GetNum(c)
              THEN IF KItems \notin c.keys
                   THEN Raised
                   ELSE [cur |-> MergeNormal(c, result), out |-> o, raised |-> FALSE]
              ELSE [cur |-> result, out |-> Append(o, c), raised |-> FALSE]
         ELSE [cur |-> result, out |-> o, raised |-> FALSE]
    ELSE [cur |-> c, out |-> o, raised |-> FALSE]

\* Variant: the last invoice is not added.
AddLast_Forgotten(c, o) == o

\* `if current_invoice: all_invoices.append(current_invoice)` after the loop.
AddLast(c, o) == IF Truthy(c) THEN Append(o, c) ELSE o

(***************************************************************************)
(* process_invoice_with_gpt                                                *)
(***************************************************************************)
\* all_invoices = [], current_invoice = None
Start == [cur |-> NoneV, out |-> <<>>, raised |-> FALSE]

Pending == [kind |-> "pending", val |-> <<>>]

RetNone == [kind |-> "none", val |-> <<>>]

RetList(l) == [kind |-> "list", val |-> l]

\* What the function returns from reconciler state f.
ReturnOf(f) == IF f.raised THEN RetNone ELSE RetList(AddLast(f.cur, f.out))

ChunkIdle ==
    /\ cpc = "off" /\ text = <<>> /\ chunkSize = 0 /\ lineQ = <<>>
    /\ currentChunk = <<>> /\ currentSize = 0 /\ chunks = <<>>
    /\ chunkLens = <<>>

\* The invocations of SpecMulti, numbered; none is running.
Files == 1..MaxFiles

InvOff == [pc |-> "off", page |-> 0, ret |-> Pending]

MultiIdle ==
    /\ inv = [f \in Files |-> InvOff]
    /\ frames = [f \in Files |-> Start]
    /\ alone = [f \in Files |-> Start]
    /\ nFed = 0

\* The container of SpecStore: one document slot per user id; no call runs.
Users == {"u1", "u2"}

NoDoc ==
    [present |-> FALSE, id |-> "", userId |-> "", hasInvoices |-> FALSE,
     invoices |-> <<>>]

NoReq == [user_id |-> "", invoices |-> <<>>]

StoreIdle ==
    /\ db = [u \in Users |-> NoDoc] /\ db0 = [u \in Users |-> NoDoc]
    /\ req = NoReq /\ spc = "off" /\ attempt = 0 /\ userDoc = NoDoc
    /\ waits = <<>> /\ log = <<>> /\ sret = "pending"

\* The endpoint of SpecBatch is not serving a request.
NoResponse ==
    [kind |-> "pending", invoice_count |-> 0, processed_files |-> 0,
     failed_files |-> 0]

BatchIdle ==
    /\ bpc = "off" /\ nUploaded = 0 /\ fileNo = 0 /\ all_invoices = <<>>
    /\ processed_files = 0 /\ failed_files = 0 /\ response = NoResponse
    /\ invoked = <<>> /\ yielded = <<>>

\* No store_invoices call of SpecRace is running.
RaceIdle == cdb = NoDoc /\ cdb0 = NoDoc /\ callers = <<>>

\* No get_cosmos_manager call of SpecMgr is running; _cosmos_manager = None.
MgrIdle == manager = 0 /\ getters = <<>> /\ created = 0

RestIdle == BatchIdle /\ RaceIdle /\ MgrIdle

Init ==
    /\ pc = "start" /\ pageNum = 0 /\ large = FALSE
    /\ tasks = <<>> /\ order = <<>> /\ results = <<>> /\ idx = 0
    /\ cur = NoneV /\ out = <<>> /\ ret = Pending
    /\ stream = <<>> /\ starts = <<>> /\ skipNull = Start
    /\ ChunkIdle /\ MultiIdle /\ StoreIdle /\ RestIdle

\* Variant: a failed extraction gives an empty invoice list.
ExtractFail_EmptyList ==
    /\ pc = "start"
    /\ pc' = "done" /\ ret' = RetList(<<>>)
    /\ UNCHANGED <<pageNum, large, tasks, order, results, idx,
                   cur, out, stream, starts, skipNull>>
    /\ UNCHANGED <<chunkVars, multiVars, storeVars, restVars>>

\* extract_document_content raised (it returns None) or found no page.
ExtractFail ==
    /\ pc = "start"
    /\ pc' = "done" /\ ret' = RetNone
    /\ UNCHANGED <<pageNum, large, tasks, order, results, idx,
                   cur, out, stream, starts, skipNull>>
    /\ UNCHANGED <<chunkVars, multiVars, storeVars, restVars>>

\* Extraction found at least one page.  How many pages there are shows when
\* the loop over sorted(pages.keys()) ends (Finish); at most MaxPages.
ExtractOk ==
    /\ pc = "start"
    /\ pc' = "page" /\ pageNum' = 1
    /\ UNCHANGED <<large, tasks, order, results, idx, cur, out, ret,
                   stream, starts, skipNull>>
    /\ UNCHANGED <<chunkVars, multiVars, storeVars, restVars>>

\* A page longer than the threshold: chunked, one send_to_gpt task per chunk.
StartLargePage ==
    /\ pc = "page" /\ pageNum <= MaxPages
    /\ \E n \in 1..MaxChunks :
          /\ Len(stream) + n <= MaxStream
          /\ tasks' = [i \in 1..n |-> NewTask]
    /\ large' = TRUE /\ pc' = "await"
    /\ UNCHANGED <<pageNum, order, results, idx, cur, out, ret, stream, starts, skipNull>>
    /\ UNCHANGED <<chunkVars, multiVars, storeVars, restVars>>

\* A normal-sized page: a single send_to_gpt call.
StartNormalPage ==
    /\ pc = "page" /\ pageNum <= MaxPages
    /\ Len(stream) + 1 <= MaxStream
    /\ tasks' = <<NewTask>>
    /\ large' = FALSE /\ pc' = "await"
    /\ UNCHANGED <<pageNum, order, results, idx, cur, out, ret, stream, starts, skipNull>>
    /\ UNCHANGED <<chunkVars, multiVars, storeVars, restVars>>

\* The create call of task i completes with some outcome.
TaskCall(i) ==
    /\ pc = "await" /\ i \in 1..Len(tasks) /\ tasks[i].st = "ready"
    /\ \E o \in Outcomes :
          LET t == send_to_gpt(tasks[i], o) IN
          /\ tasks' = [tasks EXCEPT ![i] = t]
          /\ order' = IF t.st = "done" THEN Append(order, i) ELSE order
    /\ UNCHANGED <<pc, pageNum, large, results, idx, cur, out, ret,
                   stream, starts, skipNull>>
    /\ UNCHANGED <<chunkVars, multiVars, storeVars, restVars>>

\* The backoff sleep of task i is over.
TaskWake(i) ==
    /\ pc = "await" /\ i \in 1..Len(tasks) /\ tasks[i].st = "sleep"
    /\ tasks' = [tasks EXCEPT ![i] = after_sleep(tasks[i])]
    /\ UNCHANGED <<pc, pageNum, large, order, results, idx, cur, out,
                   ret, stream, starts, skipNull>>
    /\ UNCHANGED <<chunkVars, multiVars, storeVars, restVars>>

AllDone == \A i \in 1..Len(tasks) : tasks[i].st = "done"

\* `results = await process_large_content(page_content)` returns.
GatherLarge ==
    /\ pc = "await" /\ large /\ AllDone
    /\ results' = gather(tasks)
    /\ tasks' = <<>>
    /\ idx' = 1 /\ pc' = "fold"
    /\ UNCHANGED <<pageNum, large, order, cur, out, ret, stream, starts, skipNull>>
    /\ UNCHANGED <<chunkVars, multiVars, storeVars, restVars>>

\* `result = await send_to_gpt(page_content)` returns.
AwaitNormal ==
    /\ pc = "await" /\ ~large /\ AllDone
    /\ results' = <<tasks[1].result>>
    /\ tasks' = <<>>
    /\ idx' = 1 /\ pc' = "fold"
    /\ UNCHANGED <<pageNum, large, order, cur, out, ret, stream, starts, skipNull>>
    /\ UNCHANGED <<chunkVars, multiVars, storeVars, restVars>>

\* Variant: a result whose number differs from the current invoice's is
\* merged into an already finished invoice of the same number, if any.
Reconcile_MergeByNumber(lg, c, o, result) ==
    IF /\ Truthy(result) /\ Truthy(c) /\ GetNum(result) # GetNum(c)
       /\ \E k \in 1..Len(o) : GetNum(o[k]) = GetNum(result)
    THEN LET k == CHOOSE j \in 1..Len(o) : GetNum(o[j]) = GetNum(result)
         IN [cur |-> c, out |-> [o EXCEPT ![k] = MergeNormal(o[k], result)],
             raised |-> FALSE]
    ELSE IF lg THEN ReconcileLarge(c, o, result)
         ELSE ReconcileNormal(c, o, result)

\* The branch of the page decides which copy of the loop body runs.
Reconcile(lg, c, o, result) ==
    IF lg THEN ReconcileLarge(c, o, result) ELSE ReconcileNormal(c, o, result)

\* The candidate starts a new current invoice (history only).
Became(c, result) ==
    Truthy(result) /\ (~Truthy(c) \/ GetNum(result) # GetNum(c))

\* Variant: no except clause, the exception leaves the function.
FoldStep_Uncaught ==
    /\ pc = "fold" /\ idx <= Len(results)
    /\ LET r == results[idx]
           n == Reconcile(large, cur, out, r) IN
       /\ stream' = Append(stream, r)
       /\ skipNull' = IF r = NoneV \/ skipNull.raised THEN skipNull
                      ELSE Reconcile(large, skipNull.cur, skipNull.out, r)
       /\ IF n.raised
          THEN /\ pc' = "done" /\ ret' = [kind |-> "raised", val |-> <<>>]
               /\ UNCHANGED <<cur, out, idx, starts>>
          ELSE /\ cur' = n.cur /\ out' = n.out /\ idx' = idx + 1
               /\ starts' = IF Became(cur, r)
                            THEN Append(starts, GetNum(r)) ELSE starts
               /\ UNCHANGED <<pc, ret>>
    /\ order' = <<>>
    /\ UNCHANGED <<pageNum, large, tasks, results>>
    /\ UNCHANGED <<chunkVars, multiVars, storeVars, restVars>>

\* One result is folded into the current invoice; a raised exception is
\* caught by the function's except clause, which returns None.
\* History: stream is the results folded so far, starts the numbers of the
\* invoices that became current, skipNull the reconciler state of the same
\* run fed with the non-null results only.
FoldStep ==
    /\ pc = "fold" /\ idx <= Len(results)
    /\ LET r == results[idx]
           n == Reconcile(large, cur, out, r) IN
       /\ stream' = Append(stream, r)
       /\ skipNull' = IF r = NoneV \/ skipNull.raised THEN skipNull
                      ELSE Reconcile(large, skipNull.cur, skipNull.out, r)
       /\ IF n.raised
          THEN /\ pc' = "done" /\ ret' = RetNone
               /\ UNCHANGED <<cur, out, idx, starts>>
          ELSE /\ cur' = n.cur /\ out' = n.out /\ idx' = idx + 1
               /\ starts' = IF Became(cur, r)
                            THEN Append(starts, GetNum(r)) ELSE starts
               /\ UNCHANGED <<pc, ret>>
    /\ order' = <<>>
    /\ UNCHANGED <<pageNum, large, tasks, results>>
    /\ UNCHANGED <<chunkVars, multiVars, storeVars, restVars>>

\* Variant: the loop moves on to the next page before all results are folded.
NextPage_BeforeFolded ==
    /\ pc = "fold"
    /\ pageNum' = pageNum + 1 /\ pc' = "page"
    /\ results' = <<>> /\ idx' = 0 /\ large' = FALSE
    /\ UNCHANGED <<tasks, order, cur, out, ret, stream, starts, skipNull>>
    /\ UNCHANGED <<chunkVars, multiVars, storeVars, restVars>>

\* The results of the page are folded: next page.
NextPage ==
    /\ pc = "fold" /\ idx > Len(results)
    /\ pageNum' = pageNum + 1 /\ pc' = "page"
    /\ results' = <<>> /\ idx' = 0 /\ large' = FALSE
    /\ UNCHANGED <<tasks, order, cur, out, ret, stream, starts, skipNull>>
    /\ UNCHANGED <<chunkVars, multiVars, storeVars, restVars>>

\* Variant: an empty all_invoices is returned as None.
Finish_NoneWhenEmpty ==
    /\ pc = "page" /\ pageNum > 1
    /\ out' = AddLast(cur, out)
    /\ ret' = IF AddLast(cur, out) = <<>> THEN RetNone
              ELSE RetList(AddLast(cur, out))
    /\ pc' = "done"
    /\ UNCHANGED <<pageNum, large, tasks, order, results, idx, cur,
                   stream, starts, skipNull>>
    /\ UNCHANGED <<chunkVars, multiVars, storeVars, restVars>>

\* After the last page: add the last invoice and return all_invoices.
Finish ==
    /\ pc = "page" /\ pageNum > 1
    /\ out' = AddLast(cur, out)
    /\ ret' = RetList(AddLast(cur, out))
    /\ pc' = "done"
    /\ UNCHANGED <<pageNum, large, tasks, order, results, idx, cur,
                   stream, starts, skipNull>>
    /\ UNCHANGED <<chunkVars, multiVars, storeVars, restVars>>

Next ==
    \/ ExtractFail
    \/ ExtractOk
    \/ StartLargePage
    \/ StartNormalPage
    \/ \E i \in 1..MaxChunks : TaskCall(i)
    \/ \E i \in 1..MaxChunks : TaskWake(i)
    \/ GatherLarge
    \/ AwaitNormal
    \/ FoldStep
    \/ NextPage
    \/ Finish

Spec == Init /\ [][Next]_vars

\* Termination is studied on the same steps with fewer distinct answers:
\* every kind of call outcome, a record that makes the fold raise and one
\* that does not.
LiveOutcomes ==
    {[tag |-> "raise", val |-> NoneV], [tag |-> "nochoices", val |-> NoneV],
     [tag |-> "garbage", val |-> NoneV],
     [tag |-> "json", val |-> Dict({KNum}, "1", <<>>, 0)],
     [tag |-> "json", val |-> Dict({KNum, KItems}, "1", <<"a">>, 0)]}

TaskCallLive(i) ==
    /\ pc = "await" /\ i \in 1..Len(tasks) /\ tasks[i].st = "ready"
    /\ \E o \in LiveOutcomes :
          LET t == send_to_gpt(tasks[i], o) IN
          /\ tasks' = [tasks EXCEPT ![i] = t]
          /\ order' = IF t.st = "done" THEN Append(order, i) ELSE order
    /\ UNCHANGED <<pc, pageNum, large, results, idx, cur, out, ret,
                   stream, starts, skipNull>>
    /\ UNCHANGED <<chunkVars, multiVars, storeVars, restVars>>

NextLive ==
    \/ ExtractFail
    \/ ExtractOk
    \/ StartLargePage
    \/ StartNormalPage
    \/ \E i \in 1..MaxChunks : TaskCallLive(i)
    \/ \E i \in 1..MaxChunks : TaskWake(i)
    \/ GatherLarge
    \/ AwaitNormal
    \/ FoldStep
    \/ NextPage
    \/ Finish

\* The event loop keeps running what can run: a pending completion call
\* returns or fails, a sleep ends, a coroutine that can go on does.
SpecLive == Init /\ [][NextLive]_vars /\ WF_vars(NextLive)

(***************************************************************************)
(* The chunker of process_large_content.  A text is a sequence of          *)
(* characters; NL is the newline.  chunkLens is history: the number of     *)
(* lines of each sealed chunk.                                             *)
(***************************************************************************)
NL == "\n"

Chars == {"x", "y", NL}

RECURSIVE TextsOfLen(_)
TextsOfLen(n) ==
    IF n = 0 THEN {<<>>}
    ELSE { Append(t, c) : t \in TextsOfLen(n - 1), c \in Chars }

Texts == UNION { TextsOfLen(n) : n \in 0..MaxText }

\* content.split('\n')
RECURSIVE split(_)
split(s) ==
    IF \A k \in 1..Len(s) : s[k] # NL
    THEN <<s>>
    ELSE LET k == CHOOSE j \in 1..Len(s) :
                      s[j] = NL /\ \A h \in 1..(j - 1) : s[h] # NL
         IN <<SubSeq(s, 1, k - 1)>> \o split(SubSeq(s, k + 1, Len(s)))

\* '\n'.join(lines)
RECURSIVE join(_)
join(ls) ==
    IF ls = <<>> THEN <<>>
    ELSE IF Len(ls) = 1 THEN ls[1]
    ELSE ls[1] \o <<NL>> \o join(Tail(ls))

\* Variant: the lines accumulated when the loop ends are dropped.
flush_dropped(cs, cc) == cs

\* `if current_chunk: chunks.append('\n'.join(current_chunk))` after the loop.
flush(cs, cc) == IF cc # <<>> THEN Append(cs, join(cc)) ELSE cs

PipeIdle ==
    /\ pc = "off" /\ pageNum = 0 /\ large = FALSE
    /\ tasks = <<>> /\ order = <<>> /\ results = <<>> /\ idx = 0
    /\ cur = NoneV /\ out = <<>> /\ ret = Pending
    /\ stream = <<>> /\ starts = <<>> /\ skipNull = Start

InitChunk ==
    /\ PipeIdle /\ MultiIdle /\ StoreIdle /\ RestIdle
    /\ cpc = "start"
    /\ text \in Texts
    /\ chunkSize \in 0..MaxSize
    /\ lineQ = <<>> /\ currentChunk = <<>> /\ currentSize = 0
    /\ chunks = <<>> /\ chunkLens = <<>>

\* chunks = [], current_chunk = [], current_size = 0; the text is split.
ChunkStart ==
    /\ cpc = "start"
    /\ lineQ' = split(text)
    /\ cpc' = "loop"
    /\ UNCHANGED <<text, chunkSize, currentChunk, currentSize, chunks, chunkLens>>
    /\ UNCHANGED <<pipeVars, multiVars, storeVars, restVars>>

\* Variant: the chunk is sealed only once it is already over the limit.
ChunkLine_SealWhenOver ==
    /\ cpc = "loop" /\ lineQ # <<>>
    /\ LET line == Head(lineQ)
           line_size == Len(line) + 1
           seal == currentSize > chunkSize /\ currentChunk # <<>>
       IN /\ chunks' = IF seal THEN Append(chunks, join(currentChunk)) ELSE chunks
          /\ chunkLens' = IF seal THEN Append(chunkLens, Len(currentChunk))
                          ELSE chunkLens
          /\ currentChunk' = IF seal THEN <<line>> ELSE Append(currentChunk, line)
          /\ currentSize' = IF seal THEN line_size ELSE currentSize + line_size
    /\ lineQ' = Tail(lineQ)
    /\ UNCHANGED <<cpc, text, chunkSize>>
    /\ UNCHANGED <<pipeVars, multiVars, storeVars, restVars>>

\* One iteration of `for line in content.split('\n')`.
ChunkLine ==
    /\ cpc = "loop" /\ lineQ # <<>>
    /\ LET line == Head(lineQ)
           line_size == Len(line) + 1
           seal == currentSize + line_size > chunkSize /\ currentChunk # <<>>
       IN /\ chunks' = IF seal THEN Append(chunks, join(currentChunk)) ELSE chunks
          /\ chunkLens' = IF seal THEN Append(chunkLens, Len(currentChunk))
                          ELSE chunkLens
          /\ currentChunk' = IF seal THEN <<line>> ELSE Append(currentChunk, line)
          /\ currentSize' = IF seal THEN line_size ELSE currentSize + line_size
    /\ lineQ' = Tail(lineQ)
    /\ UNCHANGED <<cpc, text, chunkSize>>
    /\ UNCHANGED <<pipeVars, multiVars, storeVars, restVars>>

\* The loop is over: the last chunk is sealed.
ChunkFlush ==
    /\ cpc = "loop" /\ lineQ = <<>>
    /\ chunks' = flush(chunks, currentChunk)
    /\ chunkLens' = IF currentChunk # <<>> THEN Append(chunkLens, Len(currentChunk))
                    ELSE chunkLens
    /\ cpc' = "done"
    /\ UNCHANGED <<text, chunkSize, lineQ, currentChunk, currentSize>>
    /\ UNCHANGED <<pipeVars, multiVars, storeVars, restVars>>

NextChunk == ChunkStart \/ ChunkLine \/ ChunkFlush

SpecChunk == InitChunk /\ [][NextChunk]_vars

(***************************************************************************)
(* Several invocations of process_invoice_with_gpt on one event loop.      *)
(* An invocation runs without interruption between two awaits: it is       *)
(* suspended while a page's calls are awaited and folds the page's results *)
(* in one go when it resumes.  inv[f] is the position of invocation f,     *)
(* frames[..] holds its local variables current_invoice and all_invoices.  *)
(* History: alone[f] is the reconciler state of invocation f fed with its  *)
(* own results only; nFed counts the results folded by all invocations.    *)
(***************************************************************************)
\* Results an interpretation call can give an invocation.
MultiCands ==
    { NoneV,
      Dict({KNum}, "1", <<>>, 0),
      Dict({KNum, KItems}, "1", <<"a">>, 0),
      Dict({KNum, KItems}, "1", <<"b">>, 0),
      Dict({KNum, KItems}, "2", <<"b">>, 0) }

\* The results of one page: one for a normal page, one per chunk otherwise.
PageResults(lg) ==
    IF lg
    THEN UNION { [1..n -> MultiCands] : n \in 1..MaxChunks }
    ELSE [1..1 -> MultiCands]

\* Variant: current_invoice and all_invoices are module-level variables.
frame_shared(f) == 1

\* The local variables of invocation f live in its own frame.
frame(f) == f

\* `for result in results` without an await: the results of a page are
\* folded in order; a raised exception ends the loop.
RECURSIVE FoldAll(_, _, _)
FoldAll(lg, st, rs) ==
    IF st.raised \/ rs = <<>> THEN st
    ELSE FoldAll(lg, Reconcile(lg, st.cur, st.out, Head(rs)), Tail(rs))

InitMulti ==
    /\ PipeIdle /\ ChunkIdle /\ StoreIdle /\ RestIdle
    /\ inv = [f \in Files |-> [pc |-> "start", page |-> 0, ret |-> Pending]]
    /\ frames = [f \in Files |-> Start]
    /\ alone = [f \in Files |-> Start]
    /\ nFed = 0

\* Invocation f is called: extraction (a blocking call) fails, or it
\* succeeds and all_invoices = [], current_invoice = None are set.
MExtract(f) ==
    /\ inv[f].pc = "start"
    /\ \/ /\ inv' = [inv EXCEPT ![f] = [pc |-> "done", page |-> 0, ret |-> RetNone]]
          /\ UNCHANGED frames
       \/ /\ inv' = [inv EXCEPT ![f] = [pc |-> "page", page |-> 1, ret |-> Pending]]
          /\ frames' = [frames EXCEPT ![frame(f)] = Start]
    /\ UNCHANGED <<alone, nFed>>
    /\ UNCHANGED <<pipeVars, chunkVars, storeVars, restVars>>

\* Invocation f reaches the await of a page and is suspended.
MAwait(f) ==
    /\ inv[f].pc = "page" /\ inv[f].page <= MaxPages
    /\ nFed < MaxStream
    /\ inv' = [inv EXCEPT ![f].pc = "await"]
    /\ UNCHANGED <<frames, alone, nFed>>
    /\ UNCHANGED <<pipeVars, chunkVars, storeVars, restVars>>

\* The awaited results arrive: invocation f resumes and folds them.
MResume(f) ==
    /\ inv[f].pc = "await"
    /\ \E lg \in BOOLEAN : \E rs \in PageResults(lg) :
          LET n == FoldAll(lg, frames[frame(f)], rs) IN
          /\ nFed + Len(rs) <= MaxStream
          /\ nFed' = nFed + Len(rs)
          /\ alone' = [alone EXCEPT ![f] = FoldAll(lg, @, rs)]
          /\ IF n.raised
             THEN /\ inv' = [inv EXCEPT ![f].pc = "done", ![f].ret = RetNone]
                  /\ UNCHANGED frames
             ELSE /\ inv' = [inv EXCEPT ![f].pc = "page", ![f].page = @ + 1]
                  /\ frames' = [frames EXCEPT ![frame(f)] = n]
    /\ UNCHANGED <<pipeVars, chunkVars, storeVars, restVars>>

\* After its last page invocation f adds the last invoice and returns.
MReturn(f) ==
    /\ inv[f].pc = "page" /\ inv[f].page > 1
    /\ inv' = [inv EXCEPT ![f].pc = "done",
                          ![f].ret = ReturnOf(frames[frame(f)])]
    /\ UNCHANGED <<frames, alone, nFed>>
    /\ UNCHANGED <<pipeVars, chunkVars, storeVars, restVars>>

NextMulti ==
    \/ \E f \in Files : MExtract(f)
    \/ \E f \in Files : MAwait(f)
    \/ \E f \in Files : MResume(f)
    \/ \E f \in Files : MReturn(f)

SpecMulti == InitMulti /\ [][NextMulti]_vars

(***************************************************************************)
(* CosmosDBManager.store_invoices.  db is the container (one document slot *)
(* per id), req the arguments of the call, userDoc the local user_doc and  *)
(* attempt the loop variable.  History: db0 is the container before the    *)
(* call, log the place and status of each finished attempt, waits the      *)
(* sleeps taken.                                                           *)
(***************************************************************************)
InvIds == {"i1", "i2"}

SeqsUpTo(S, n) == UNION { [1..k -> S] : k \in 0..n }

\* A stored user document; a document may lack the 'invoices' key.
Doc(u, has, l) ==
    [present |-> TRUE, id |-> u, userId |-> u, hasInvoices |-> has,
     invoices |-> IF has THEN l ELSE <<>>]

StoredDocs(u) ==
    {NoDoc, Doc(u, FALSE, <<>>)}
        \cup { Doc(u, TRUE, l) : l \in SeqsUpTo(InvIds, MaxStored) }

\* Status of a service call: 200 it answers (404 on a read answers "no
\* document"), 429 rate limited, 500 another CosmosHttpResponseError,
\* 0 an exception of another class.
Statuses == {200, 429, 500, 0}

\* read_item in get_user_document: the document, or None when not found.
get_user_document(u) == db[u]

\* Variant: the stored list is ignored.
existing_invoices_ignored(doc) == <<>>

\* user_doc.get('invoices', [])
existing_invoices(doc) == IF doc.hasInvoices THEN doc.invoices ELSE <<>>

\* existing_invoices.extend(invoices); user_doc['invoices'] = existing_invoices
extended(doc, l) ==
    [doc EXCEPT !.hasInvoices = TRUE, !.invoices = existing_invoices(doc) \o l]

\* {'id': user_id, 'userId': user_id, 'invoices': invoices}
new_user_doc(u, l) == Doc(u, TRUE, l)

\* Variant: every error is retried.
should_retry_any(status, att) == att < max_retries - 1

\* `e.status_code == 429 and attempt < self.max_retries - 1` in the handler
\* of CosmosHttpResponseError; other exceptions are re-raised.
should_retry(status, att) == status = 429 /\ att < max_retries - 1

wait_time(att) == base_delay * (2 ^ att)

InitStore ==
    /\ PipeIdle /\ ChunkIdle /\ MultiIdle /\ RestIdle
    /\ db \in { d \in [Users -> UNION { StoredDocs(u) : u \in Users }] :
                   \A u \in Users : d[u] \in StoredDocs(u) }
    /\ db0 = db
    /\ req \in [user_id : Users, invoices : SeqsUpTo(InvIds, MaxBatch)]
    /\ spc = "read" /\ attempt = 0 /\ userDoc = NoDoc
    /\ waits = <<>> /\ log = <<>> /\ sret = "pending"

\* The attempt failed at `place` with `status`: sleep and retry, or raise.
Handle(place, status) ==
    /\ log' = Append(log, [at |-> place, status |-> status])
    /\ IF should_retry(status, attempt)
       THEN /\ spc' = "sleep"
            /\ waits' = Append(waits, wait_time(attempt))
            /\ UNCHANGED sret
       ELSE /\ spc' = "done" /\ sret' = "raised"
            /\ UNCHANGED waits

\* `user_doc = await self.get_user_document(user_id)`
StoreRead ==
    /\ spc = "read"
    /\ \E status \in Statuses :
          IF status = 200
          THEN /\ userDoc' = get_user_document(req.user_id)
               /\ spc' = "write"
               /\ UNCHANGED <<waits, log, sret>>
          ELSE /\ Handle("read", status)
               /\ UNCHANGED userDoc
    /\ UNCHANGED <<db, db0, req, attempt>>
    /\ UNCHANGED <<pipeVars, chunkVars, multiVars, restVars>>

\* replace_item of the extended document, or create_item of a new one.
StoreWrite ==
    /\ spc = "write"
    /\ \E status \in Statuses :
          IF status = 200
          THEN /\ LET body == IF userDoc.present
                              THEN extended(userDoc, req.invoices)
                              ELSE new_user_doc(req.user_id, req.invoices)
                  IN db' = [db EXCEPT ![body.id] = body]
               /\ log' = Append(log, [at |-> "write", status |-> 200])
               /\ spc' = "done" /\ sret' = "returned"
               /\ UNCHANGED waits
          ELSE /\ Handle("write", status)
               /\ UNCHANGED db
    /\ UNCHANGED <<db0, req, attempt, userDoc>>
    /\ UNCHANGED <<pipeVars, chunkVars, multiVars, restVars>>

\* The sleep is over: `continue` with the next value of range(max_retries);
\* when the range is exhausted the function ends without a return value.
StoreWake ==
    /\ spc = "sleep"
    /\ attempt' = attempt + 1
    /\ IF attempt + 1 < max_retries
       THEN spc' = "read" /\ UNCHANGED sret
       ELSE spc' = "done" /\ sret' = "none"
    /\ UNCHANGED <<db, db0, req, userDoc, waits, log>>
    /\ UNCHANGED <<pipeVars, chunkVars, multiVars, restVars>>

NextStore == StoreRead \/ StoreWrite \/ StoreWake

SpecStore == InitStore /\ [][NextStore]_vars

(***************************************************************************)
(* The process-invoice endpoint (main.py) for one request with nUploaded   *)
(* files.  An invoice is known by the file it came from and its position.  *)
(* History: invoked[f] counts the pipeline calls for file f, yielded[f] is *)
(* the number of invoices the pipeline returned for it.                    *)
(***************************************************************************)
\* What process_invoice_with_gpt can return: None, or a list of k invoices.
PipelineResults ==
    {[isNone |-> TRUE, n |-> 0]}
        \cup { [isNone |-> FALSE, n |-> k] : k \in 0..MaxYield }

InvoicesOf(f, k) == [j \in 1..k |-> [file |-> f, k |-> j]]

OkResponse ==
    [kind |-> "ok", invoice_count |-> Len(all_invoices),
     processed_files |-> processed_files, failed_files |-> failed_files]

\* raise HTTPException(status_code=500, ...)
ErrorResponse ==
    [kind |-> "error", invoice_count |-> 0, processed_files |-> 0,
     failed_files |-> 0]

InitBatch ==
    /\ PipeIdle /\ ChunkIdle /\ MultiIdle /\ StoreIdle /\ RaceIdle /\ MgrIdle
    /\ nUploaded \in 1..MaxFiles
    /\ bpc = "read" /\ fileNo = 1
    /\ all_invoices = <<>> /\ processed_files = 0 /\ failed_files = 0
    /\ response = NoResponse
    /\ invoked = [f \in 1..nUploaded |-> 0]
    /\ yielded = [f \in 1..nUploaded |-> 0]

\* The loop takes the next file, or ends.
NextFile ==
    /\ fileNo' = fileNo + 1
    /\ bpc' = IF fileNo < nUploaded THEN "read" ELSE "after"

\* Variant: a file that cannot be read ends the request with an error.
BRead_Aborts ==
    /\ bpc = "read"
    /\ \/ /\ bpc' = "pipeline"
          /\ UNCHANGED <<fileNo, failed_files, response>>
       \/ /\ bpc' = "done" /\ response' = ErrorResponse
          /\ UNCHANGED <<fileNo, failed_files>>
    /\ UNCHANGED <<nUploaded, all_invoices, processed_files, invoked, yielded>>
    /\ UNCHANGED <<pipeVars, chunkVars, multiVars, storeVars, raceVars, mgrVars>>

\* `content = await file.read()` and the temporary file: done, or an
\* exception that the file's except clause counts as a failed file.
BRead ==
    /\ bpc = "read"
    /\ \/ /\ bpc' = "pipeline"
          /\ UNCHANGED <<fileNo, failed_files>>
       \/ /\ failed_files' = failed_files + 1
          /\ NextFile
    /\ UNCHANGED <<nUploaded, all_invoices, processed_files, response,
                   invoked, yielded>>
    /\ UNCHANGED <<pipeVars, chunkVars, multiVars, storeVars, raceVars, mgrVars>>

\* `results = await process_invoice_with_gpt(...)` and `if results:`.
BPipeline ==
    /\ bpc = "pipeline"
    /\ invoked' = [invoked EXCEPT ![fileNo] = @ + 1]
    /\ \E res \in PipelineResults :
          IF ~res.isNone /\ res.n # 0
          THEN /\ all_invoices' = all_invoices \o InvoicesOf(fileNo, res.n)
               /\ processed_files' = processed_files + 1
               /\ yielded' = [yielded EXCEPT ![fileNo] = res.n]
               /\ UNCHANGED failed_files
          ELSE /\ failed_files' = failed_files + 1
               /\ UNCHANGED <<all_invoices, processed_files, yielded>>
    /\ bpc' = "cleanup"
    /\ UNCHANGED <<nUploaded, fileNo, response>>
    /\ UNCHANGED <<pipeVars, chunkVars, multiVars, storeVars, raceVars, mgrVars>>

\* `finally: os.unlink(temp_file_path)`: done, or an exception that reaches
\* the file's except clause, which counts a failed file.
BCleanup ==
    /\ bpc = "cleanup"
    /\ \/ UNCHANGED failed_files
       \/ failed_files' = failed_files + 1
    /\ NextFile
    /\ UNCHANGED <<nUploaded, all_invoices, processed_files, response,
                   invoked, yielded>>
    /\ UNCHANGED <<pipeVars, chunkVars, multiVars, storeVars, raceVars, mgrVars>>

\* After the loop: `if not all_invoices` returns the counts at once.
BAfter ==
    /\ bpc = "after"
    /\ IF all_invoices = <<>>
       THEN bpc' = "done" /\ response' = OkResponse
       ELSE bpc' = "store" /\ UNCHANGED response
    /\ UNCHANGED <<nUploaded, fileNo, all_invoices, processed_files,
                   failed_files, invoked, yielded>>
    /\ UNCHANGED <<pipeVars, chunkVars, multiVars, storeVars, raceVars, mgrVars>>

\* get_cosmos_manager and store_invoices: done, or an exception that the
\* endpoint's except clause turns into HTTP 500.
BStore ==
    /\ bpc = "store"
    /\ bpc' = "done"
    /\ \/ response' = OkResponse
       \/ response' = ErrorResponse
    /\ UNCHANGED <<nUploaded, fileNo, all_invoices, processed_files,
                   failed_files, invoked, yielded>>
    /\ UNCHANGED <<pipeVars, chunkVars, multiVars, storeVars, raceVars, mgrVars>>

NextBatch == BRead \/ BPipeline \/ BCleanup \/ BAfter \/ BStore

SpecBatch == InitBatch /\ [][NextBatch]_vars

(***************************************************************************)
(* Two store_invoices calls for the same user on one event loop; each is   *)
(* suspended at its read and at its write.  cdb is the user's document     *)
(* slot, callers[c] the loop variable, user_doc, argument and outcome of   *)
(* call c.  History: cdb0 is the document before the calls.                *)
(***************************************************************************)
Callers == {1, 2}

RaceUser == "u1"

\* The invoices call c is given; they differ from the stored ones.
NewInvoices(c) == IF c = 1 THEN <<"n1">> ELSE <<"n2">>

NewCaller(c) ==
    [spc |-> "read", attempt |-> 0, userDoc |-> NoDoc,
     invoices |-> NewInvoices(c), sret |-> "pending"]

InitRace ==
    /\ PipeIdle /\ ChunkIdle /\ MultiIdle /\ StoreIdle /\ BatchIdle /\ MgrIdle
    /\ cdb \in StoredDocs(RaceUser)
    /\ cdb0 = cdb
    /\ callers = [c \in Callers |-> NewCaller(c)]

\* The handlers at the end of the loop body, for call record k.
Handled(k, status) ==
    IF should_retry(status, k.attempt)
    THEN [k EXCEPT !.spc = "sleep"]
    ELSE [k EXCEPT !.spc = "done", !.sret = "raised"]

\* Call c reads the user's document.
RRead(c) ==
    /\ callers[c].spc = "read"
    /\ \E status \in Statuses :
          callers' = [callers EXCEPT ![c] =
              IF status = 200
              THEN [@ EXCEPT !.userDoc = cdb, !.spc = "write"]
              ELSE Handled(@, status)]
    /\ UNCHANGED <<cdb, cdb0>>
    /\ UNCHANGED <<pipeVars, chunkVars, multiVars, storeVars, batchVars, mgrVars>>

\* Call c writes: replace_item puts its extended copy in place of the stored
\* document whatever that holds now; create_item fails with 409 when a
\* document exists by now.
RWrite(c) ==
    /\ callers[c].spc = "write"
    /\ LET k == callers[c] IN
       \E status \in Statuses :
          IF status # 200
          THEN /\ callers' = [callers EXCEPT ![c] = Handled(k, status)]
               /\ UNCHANGED cdb
          ELSE IF k.userDoc.present
          THEN /\ cdb' = extended(k.userDoc, k.invoices)
               /\ callers' = [callers EXCEPT ![c].spc = "done",
                                              ![c].sret = "returned"]
          ELSE IF cdb.present
          THEN /\ callers' = [callers EXCEPT ![c] = Handled(k, 409)]
               /\ UNCHANGED cdb
          ELSE /\ cdb' = new_user_doc(RaceUser, k.invoices)
               /\ callers' = [callers EXCEPT ![c].spc = "done",
                                              ![c].sret = "returned"]
    /\ UNCHANGED cdb0
    /\ UNCHANGED <<pipeVars, chunkVars, multiVars, storeVars, batchVars, mgrVars>>

\* The sleep of call c is over.
RWake(c) ==
    /\ callers[c].spc = "sleep"
    /\ callers' = [callers EXCEPT ![c].attempt = @ + 1, ![c].spc = "read"]
    /\ UNCHANGED <<cdb, cdb0>>
    /\ UNCHANGED <<pipeVars, chunkVars, multiVars, storeVars, batchVars, mgrVars>>

NextRace ==
    \/ \E c \in Callers : RRead(c)
    \/ \E c \in Callers : RWrite(c)
    \/ \E c \in Callers : RWake(c)

SpecRace == InitRace /\ [][NextRace]_vars

(***************************************************************************)
(* get_cosmos_manager called concurrently.  manager is _cosmos_manager     *)
(* (0 for None, otherwise the number of the instance), getters[g] the      *)
(* position of caller g, what it was given and how often it has called.    *)
(* History: created counts the initializations that succeeded.             *)
(***************************************************************************)
Getters == {1, 2, 3}

InitMgr ==
    /\ PipeIdle /\ ChunkIdle /\ MultiIdle /\ StoreIdle /\ BatchIdle /\ RaceIdle
    /\ manager = 0 /\ created = 0
    /\ getters = [g \in Getters |-> [pc |-> "idle", got |-> 0, n |-> 0]]

\* Caller g calls: `if _cosmos_manager is None` starts an initialization
\* and awaits it; otherwise the stored instance is returned.
GCall(g) ==
    /\ getters[g].pc \in {"idle", "done", "failed"}
    /\ getters[g].n < MaxCalls
    /\ getters' = [getters EXCEPT ![g] =
          IF manager = 0
          THEN [pc |-> "init", got |-> 0, n |-> @.n + 1]
          ELSE [pc |-> "done", got |-> manager, n |-> @.n + 1]]
    /\ UNCHANGED <<manager, created>>
    /\ UNCHANGED <<pipeVars, chunkVars, multiVars, storeVars, batchVars, raceVars>>

\* initialize() of caller g succeeds: the new instance is assigned to
\* _cosmos_manager and returned.
GInitOk(g) ==
    /\ getters[g].pc = "init"
    /\ created' = created + 1
    /\ manager' = created + 1
    /\ getters' = [getters EXCEPT ![g].pc = "done", ![g].got = created + 1]
    /\ UNCHANGED <<pipeVars, chunkVars, multiVars, storeVars, batchVars, raceVars>>

\* initialize() of caller g raises: nothing is assigned.
GInitFail(g) ==
    /\ getters[g].pc = "init"
    /\ getters' = [getters EXCEPT ![g].pc = "failed"]
    /\ UNCHANGED <<manager, created>>
    /\ UNCHANGED <<pipeVars, chunkVars, multiVars, storeVars, batchVars, raceVars>>

NextMgr ==
    \/ \E g \in Getters : GCall(g)
    \/ \E g \in Getters : GInitOk(g)
    \/ \E g \in Getters : GInitFail(g)

SpecMgr == InitMgr /\ [][NextMgr]_vars

(***************************************************************************)
(* Properties                                                              *)
(***************************************************************************)
Cand(k) == stream[k]

NonNull(st) == SelectSeq(st, LAMBDA e : e # NoneV)

NonEmpty(st) == SelectSeq(st, LAMBDA e : Truthy(e))

\* A result is about to be folded while an invoice with the same number is held.
SameNumberStep ==
    /\ pc = "fold" /\ idx <= Len(results)
    /\ results[idx] # NoneV /\ Truthy(cur)
    /\ GetNum(results[idx]) = GetNum(cur)

\* C1: whenever a non-null candidate arrives whose invoice number equals that
\* of the held current invoice, its items are appended, in order and without
\* deduplication, to the end of the current invoice's items, and no record is
\* added to the output at that step.
C1_SameNumberAppendsItems ==
    [][SameNumberStep =>
          /\ ret' = Pending
          /\ GetItems(cur') = GetItems(cur) \o GetItems(results[idx])
          /\ out' = out]_vars

\* C2: every invoice that was ever held appears in the returned output
\* exactly once, in the order in which it became current.
C2_HeldInvoicesAreReturned ==
    (pc = "done" /\ starts # <<>>) =>
        /\ ret.kind = "list"
        /\ Len(ret.val) = Len(starts)
        /\ \A k \in 1..Len(starts) : GetNum(ret.val[k]) = starts[k]

\* C3: a null candidate is a no-op: at every point the current invoice and
\* the output, and at the end the returned value, are those of the same run
\* fed with the stream from which all null entries are removed.
C3_NullIsNoOp ==
    pageNum >= 1 =>
        /\ ret = Pending => (~skipNull.raised /\ skipNull.cur = cur /\ skipNull.out = out)
        /\ pc = "done" => ret = ReturnOf(skipNull)

\* Two same-numbered candidates separated by a null were merged into one record.
C3_Witness ==
    /\ pc = "done" /\ Len(stream) = 3
    /\ Cand(2) = NoneV /\ Truthy(Cand(1)) /\ Truthy(Cand(3))
    /\ Cand(1).items # <<>> /\ Cand(3).items # <<>>
    /\ ret.kind = "list" /\ Len(ret.val) = 1
    /\ ret.val[1].items = Cand(1).items \o Cand(3).items

\* A merge takes place: same number, and the held invoice has an item list.
MergeStep ==
    /\ pc = "fold" /\ idx <= Len(results)
    /\ Truthy(results[idx]) /\ Truthy(cur)
    /\ GetNum(results[idx]) = GetNum(cur)
    /\ KItems \in cur.keys

TotalUnchanged ==
    /\ cur'.total = cur.total
    /\ (KTotal \in cur'.keys) = (KTotal \in cur.keys)

C5_FirstNonNullBecomesCurrent ==
    (pc = "done" /\ pageNum >= 1 /\ Len(NonNull(stream)) = 1) =>
        ret = RetList(<<NonNull(stream)[1]>>)

\* C5 amended: candidates that are null or an empty record are skipped; the
\* first other candidate becomes the current invoice, and a stream with
\* exactly one such candidate returns a one-element output equal to it.
C5_FirstNonEmptyBecomesCurrent ==
    LET t == NonEmpty(stream) IN
    /\ (pageNum >= 1 /\ t # <<>>) =>
          (starts # <<>> /\ starts[1] = GetNum(t[1]))
    /\ (pageNum >= 1 /\ t = <<>> /\ ret = Pending) =>
          (cur = NoneV /\ out = <<>>)
    /\ (pc = "fold" /\ ret = Pending /\ Len(t) = 1) => (cur = t[1] /\ out = <<>>)
    /\ (pc = "done" /\ pageNum >= 1 /\ Len(t) = 1) => ret = RetList(<<t[1]>>)

\* An empty record was skipped and the record after it was returned alone.
C5_Witness ==
    /\ pc = "done" /\ Len(stream) = 2
    /\ Cand(1) = Dict({}, "", <<>>, 0) /\ Truthy(Cand(2))
    /\ ret = RetList(<<Cand(2)>>)

\* C6: a 2-page document whose pages each yield one candidate, both with the
\* same invoice number, returns exactly one invoice whose items are page 1's
\* items followed by page 2's items.
C6_TwoPagesOneInvoice ==
    (/\ pc = "done" /\ Len(stream) = 2
     /\ \/ ret.kind = "list" /\ pageNum = 3
        \/ ret = RetNone /\ pageNum = 2 /\ Len(results) = 1
     /\ KNum \in Cand(1).keys /\ KNum \in Cand(2).keys
     /\ Cand(1).num = Cand(2).num) =>
        /\ ret.kind = "list" /\ Len(ret.val) = 1
        /\ GetItems(ret.val[1]) = GetItems(Cand(1)) \o GetItems(Cand(2))

\* 1s before the 2nd attempt, 2s before the 3rd.
BackoffBefore(attemptNo) == IF attemptNo = 2 THEN 1 ELSE 2

\* C7: at most 3 attempts per chunk; the wait after a failed attempt is 1s
\* before the 2nd attempt and 2s before the 3rd; no wait after the 3rd.
C7_RetryPolicy ==
    \A i \in 1..Len(tasks) :
        /\ tasks[i].st \in {"ready", "sleep"} => tasks[i].calls < Retries
        /\ tasks[i].st = "sleep" =>
              tasks[i].delay = BackoffBefore(tasks[i].calls + 1)

\* Task i has just had a call return or fail.
Called(i) ==
    /\ pc = "await" /\ pc' = "await"
    /\ tasks[i].st = "ready" /\ tasks'[i] # tasks[i]

\* C8: a call that returns is never followed by another attempt for the same
\* chunk, and a response that is not parsable JSON gives null at once.
C8_NoRetryAfterReturn ==
    [][\A i \in 1..Len(tasks) :
          (Called(i) /\ tasks'[i].last # "raise") =>
              /\ tasks'[i].st = "done"
              /\ tasks'[i].last # "json" => tasks'[i].result = NoneV]_vars

\* C9: whatever the completion order of the concurrent calls of an oversized
\* page, the results handed to the reconciler are in chunk order: result i is
\* the return value of the task of chunk i.
C9_ResultsInChunkOrder ==
    [][(pc = "await" /\ pc' = "fold" /\ large) =>
          /\ Len(results') = Len(tasks)
          /\ \A i \in 1..Len(tasks) : results'[i] = tasks[i].result]_vars

\* Chunk 2 finished before chunk 1, with different results, and the results
\* are about to be folded.
C9_Witness ==
    /\ pc = "fold" /\ large /\ idx = 1
    /\ order = <<2, 1>> /\ Len(results) = 2
    /\ results[1] # results[2] /\ Truthy(results[1]) /\ Truthy(results[2])

\* C10: the chunker produces at least one chunk, each chunk holds at least
\* one whole line, and joining the chunks with newlines gives the text back.
C10_ChunkRoundTrip ==
    cpc = "done" =>
        /\ Len(chunks) >= 1
        /\ Len(chunkLens) = Len(chunks)
        /\ \A k \in 1..Len(chunks) :
              chunkLens[k] >= 1 /\ Len(split(chunks[k])) = chunkLens[k]
        /\ join(chunks) = text

\* A text of at least three lines was cut into several chunks, one of them
\* holding two lines.
C10_Witness ==
    /\ cpc = "done" /\ Len(split(text)) >= 3
    /\ Len(chunks) >= 2
    /\ \E k \in 1..Len(chunks) : chunkLens[k] = 2

\* The lines of the chunks, in order.
RECURSIVE LinesOf(_)
LinesOf(cs) == IF cs = <<>> THEN <<>> ELSE split(Head(cs)) \o LinesOf(Tail(cs))

\* C11: every chunk has length <= chunk_size, except a chunk that consists of
\* exactly one line which is itself longer than chunk_size; such a line is
\* never split and never shares its chunk with another line.
C11_ChunkSizeBound ==
    cpc = "done" =>
        /\ LinesOf(chunks) = split(text)
        /\ \A k \in 1..Len(chunks) :
              /\ Len(chunks[k]) <= chunkSize \/ chunkLens[k] = 1
              /\ (\E j \in 1..Len(split(chunks[k])) :
                     Len(split(chunks[k])[j]) > chunkSize) => chunkLens[k] = 1

\* A line longer than chunk_size stands alone in an oversized chunk between
\* two other chunks.
C11_Witness ==
    /\ cpc = "done" /\ chunkSize >= 1 /\ Len(chunks) = 3
    /\ Len(chunks[2]) > chunkSize /\ chunkLens[2] = 1
    /\ Len(chunks[1]) <= chunkSize /\ Len(chunks[3]) <= chunkSize

\* C12: when extraction fails or finds no page, the function returns None,
\* no interpretation call is made and no invoice list is built.
C12_ExtractionFailureIsWholeFile ==
    /\ pageNum = 0 =>
          /\ tasks = <<>> /\ results = <<>> /\ stream = <<>>
          /\ cur = NoneV /\ out = <<>>
    /\ (pc = "done" /\ pageNum = 0) => ret = RetNone

\* The run ended at the extraction step.
C12_Witness ==
    pc = "done" /\ pageNum = 0 /\ ret = RetNone /\ tasks = <<>>

\* C13 as stated: when extraction succeeds but every candidate is null, the
\* function returns None, not an empty list.
C13_AllNullReturnsNone ==
    (pc = "done" /\ pageNum >= 1 /\ NonNull(stream) = <<>>) => ret = RetNone

\* C13 amended: the function returns the reconciler's finalized sequence as a
\* list; when extraction succeeds but every candidate is null or an empty
\* record that list is empty, and it is returned as an empty list, not None.
C13_AllNullReturnsEmptyList ==
    /\ (pc = "done" /\ ret.kind = "list") => ret.val = out
    /\ (pc = "done" /\ pageNum >= 1 /\ NonEmpty(stream) = <<>>) =>
          ret = RetList(<<>>)

\* Two pages were interpreted, every candidate was null, and the function
\* returned the empty list.
C13_Witness ==
    /\ pc = "done" /\ pageNum = 3 /\ Len(stream) >= 2
    /\ NonNull(stream) = <<>>
    /\ ret = RetList(<<>>)

\* C14: reconciliation has no error path: once extraction has succeeded,
\* folding the candidates never fails, and the invoices built from the
\* usable candidates are returned as a list.
C14_FoldNeverFails ==
    (pc = "done" /\ pageNum >= 1) =>
        /\ ret.kind = "list"
        /\ Len(ret.val) >= Len(out)

\* C15: no exception escapes process_invoice_with_gpt: whatever the
\* extraction outcome, the call outcomes and the candidates, the function
\* ends by returning None or a list of invoices.
C15_NoExceptionEscapes ==
    /\ ret.kind \in {"pending", "none", "list"}
    /\ pc = "done" <=> ret # Pending
    /\ pc = "done" => ret.kind \in {"none", "list"}

\* An exception raised while folding, after an invoice had been finished,
\* was caught and turned into a None return.
C15_Witness ==
    /\ pc = "done" /\ pageNum >= 1 /\ out # <<>>
    /\ idx <= Len(results)
    /\ ret = RetNone

\* C16: pages are processed one after the other in ascending order: the
\* calls of a page start only when nothing of an earlier page is pending or
\* unfolded, a normal page gives one call and an oversized page one call per
\* chunk, the results are awaited until every call has completed, and the
\* next page is taken only when all results are folded.
C16_PagesInOrder ==
    [][/\ (pc = "page" /\ pc' = "await") =>
             /\ tasks = <<>> /\ results = <<>> /\ pageNum' = pageNum
             /\ IF large' THEN Len(tasks') >= 1 ELSE Len(tasks') = 1
             /\ \A i \in 1..Len(tasks') : tasks'[i] = NewTask
       /\ (tasks' # tasks) => (pc' = "await" \/ pc = "await")
       /\ (pc = "await" /\ pc' = "fold") =>
             /\ AllDone /\ Len(results') = Len(tasks) /\ tasks' = <<>>
       /\ (pc = "fold" /\ pc' = "page") =>
             /\ idx = Len(results) + 1 /\ pageNum' = pageNum + 1
             /\ Len(stream) >= Len(results)
             /\ SubSeq(stream, Len(stream) - Len(results) + 1, Len(stream))
                   = results
       /\ pageNum' \in {pageNum, pageNum + 1}]_vars

\* The second page, a normal one, is being interpreted after the two chunks
\* of an oversized first page were folded.
C16_Witness ==
    /\ pc = "await" /\ pageNum = 2 /\ ~large
    /\ Len(stream) = 2 /\ Len(tasks) = 1 /\ tasks[1].calls = 1

\* C17: candidates of one invoice that are not contiguous are split: for
\* candidates numbered A, B, A (A # B) the output is exactly the three
\* candidates, and the third one's items are not merged into the first.
C17_InterleavedInvoiceIsSplit ==
    (/\ pc = "done" /\ Len(stream) = 3
     /\ \A k \in 1..3 : Truthy(Cand(k))
     /\ GetNum(Cand(1)) = GetNum(Cand(3))
     /\ GetNum(Cand(1)) # GetNum(Cand(2))) =>
        ret = RetList(<<Cand(1), Cand(2), Cand(3)>>)

\* Invoice "1", then "2", then "1" again: three records are returned.
C17_Witness ==
    /\ pc = "done" /\ Len(stream) = 3
    /\ Cand(1) = Dict({KNum, KItems}, "1", <<"a">>, 0)
    /\ Cand(2) = Dict({KNum, KItems}, "2", <<"b">>, 0)
    /\ Cand(3) = Dict({KNum, KItems}, "1", <<"b">>, 0)
    /\ ret.kind = "list" /\ Len(ret.val) = 3
    /\ ret.val[1].items = <<"a">>

\* C18: reconciler state is per invocation: while invocations interleave at
\* their awaits, each one's current invoice and output list are those of
\* the same invocation run alone on its own outcomes, and so is the value it
\* returns.
C18_StatePerInvocation ==
    \A f \in Files :
        /\ inv[f].pc \in {"page", "await"} =>
              /\ ~alone[f].raised
              /\ frames[frame(f)].cur = alone[f].cur
              /\ frames[frame(f)].out = alone[f].out
        /\ inv[f].pc = "done" =>
              inv[f].ret = IF inv[f].page = 0 THEN RetNone ELSE ReturnOf(alone[f])

\* Invocation 1 returned invoice "1" with the items of its two pages although
\* invocation 2, holding invoice "2", was running in between and still is.
C18_Witness ==
    /\ inv[1].pc = "done" /\ inv[1].page = 3
    /\ inv[1].ret.kind = "list" /\ Len(inv[1].ret.val) = 1
    /\ inv[1].ret.val[1].num = "1" /\ Len(inv[1].ret.val[1].items) = 2
    /\ inv[2].pc = "await" /\ inv[2].page = 2
    /\ frames[2].cur.num = "2"

\* C19: after a successful store_invoices(user_id, L) the user's document
\* has id = userId = user_id and its invoice list is the list stored before
\* the call followed by L (exactly L when there was no document or no list),
\* however many rate-limited attempts came first; other documents are
\* untouched.
C19_StoreAppendsOnce ==
    sret = "returned" =>
        LET u == req.user_id
            d == db[u] IN
        /\ d.present /\ d.id = u /\ d.userId = u /\ d.hasInvoices
        /\ d.invoices = (IF db0[u].present /\ db0[u].hasInvoices
                         THEN db0[u].invoices ELSE <<>>) \o req.invoices
        /\ \A v \in Users \ {u} : db[v] = db0[v]

\* The call succeeded at its third attempt, after a rate-limited read and a
\* rate-limited write, on a user who already had invoices stored.
C19_Witness ==
    /\ sret = "returned" /\ Len(log) = 3
    /\ log[1] = [at |-> "read", status |-> 429]
    /\ log[2] = [at |-> "write", status |-> 429]
    /\ db0[req.user_id].present /\ db0[req.user_id].invoices # <<>>
    /\ req.invoices # <<>>
    /\ Len(db[req.user_id].invoices)
          = Len(db0[req.user_id].invoices) + Len(req.invoices)

\* C20: a rate-limited attempt (429 in the read or in the write) is retried
\* after 1s, then 2s, for at most 3 attempts; a 429 on the 3rd attempt and
\* any other error on any attempt is raised at once; the call returns
\* normally only after a successful write.
C20_StoreRetryPolicy ==
    /\ Len(log) <= 3
    /\ waits = SubSeq(<<1, 2>>, 1, Len(waits))
    /\ \A k \in 1..Len(log) : k < Len(log) => log[k].status = 429
    /\ spc \in {"read", "write"} => (Len(log) = attempt /\ Len(waits) = attempt)
    /\ spc = "sleep" => (Len(log) = attempt + 1 /\ Len(waits) = attempt + 1)
    /\ (log # <<>> /\ log[Len(log)].status # 200
           /\ (log[Len(log)].status # 429 \/ Len(log) = 3)) =>
          (spc = "done" /\ sret = "raised" /\ Len(waits) = Len(log) - 1)
    /\ spc = "done" <=> sret # "pending"
    /\ sret \in {"pending", "returned", "raised"}
    /\ sret = "returned" =>
          log[Len(log)] = [at |-> "write", status |-> 200]

\* Three rate-limited attempts: waits of 1s and 2s, then the error is raised
\* and nothing was written.
C20_Witness ==
    /\ sret = "raised" /\ Len(log) = 3
    /\ \A k \in 1..3 : log[k].status = 429
    /\ waits = <<1, 2>> /\ db = db0

\* The item lists of a sequence of records, concatenated.
RECURSIVE ItemsOf(_)
ItemsOf(rs) ==
    IF rs = <<>> THEN <<>> ELSE GetItems(Head(rs)) \o ItemsOf(Tail(rs))

\* C23: item conservation: the item lists of the returned invoices,
\* concatenated in output order, are the item lists of the non-null
\* candidates concatenated in stream order.
C23_ItemsConserved ==
    (pc = "done" /\ pageNum >= 1) =>
        /\ ret.kind = "list"
        /\ ItemsOf(ret.val) = ItemsOf(NonNull(stream))

\* C26: of two consecutive candidates (taken here as non-empty records), two
\* that both lack an 'Invoice Number' are merged into one record, and two of
\* which exactly one lacks it give two records.
C26_MissingNumberIsAKey ==
    (/\ pc = "done" /\ Len(stream) = 2
     /\ Truthy(Cand(1)) /\ Truthy(Cand(2))
     /\ KNum \notin Cand(1).keys \/ KNum \notin Cand(2).keys) =>
        IF KNum \notin Cand(1).keys /\ KNum \notin Cand(2).keys
        THEN /\ ret.kind = "list" /\ Len(ret.val) = 1
             /\ GetItems(ret.val[1]) = GetItems(Cand(1)) \o GetItems(Cand(2))
        ELSE ret = RetList(<<Cand(1), Cand(2)>>)

\* C27: termination: each chunk's task makes at most 3 completion calls (so
\* a file makes at most 3 calls per chunk), and when every call eventually
\* returns or fails the function eventually returns.
C27_Terminates ==
    /\ [](\A i \in 1..Len(tasks) :
             /\ tasks[i].st = "ready" =>
                   (tasks[i].calls = tasks[i].attempt /\ tasks[i].calls < Retries)
             /\ tasks[i].st = "sleep" =>
                   (tasks[i].calls = tasks[i].attempt + 1 /\ tasks[i].calls < Retries))
    /\ <>(pc = "done" /\ ret # Pending)

\* The task of chunk 1 has used its three attempts, the third one raising,
\* and the task of chunk 2 has returned a record.
C27_Witness ==
    /\ pc = "await" /\ Len(tasks) = 2 /\ AllDone
    /\ tasks[1].last = "raise" /\ tasks[2].last = "json"

RECURSIVE SumSeq(_)
SumSeq(q) == IF q = <<>> THEN 0 ELSE Head(q) + SumSeq(Tail(q))

\* C21: batch accounting: the pipeline is invoked at most once per file, and
\* in every returned response processed_files + failed_files is the number
\* of uploaded files and invoice_count the number of invoices the pipeline
\* returned over the processed files.
C21_BatchAccounting ==
    /\ \A f \in 1..nUploaded : invoked[f] <= 1
    /\ response.kind = "ok" =>
          /\ response.processed_files + response.failed_files = nUploaded
          /\ response.invoice_count = SumSeq(yielded)

\* C22 as stated: whatever fails (file read, pipeline, cleanup, storage), the
\* request ends with a response carrying the counts, never with an error.
C22_NeverAnError ==
    bpc = "done" => response.kind = "ok"

\* C22 amended: a failure while reading, processing or cleaning up one file
\* never ends the request: the loop goes over every uploaded file, and the
\* request ends with a response carrying the counts unless storing the
\* invoices fails, in which case it ends with HTTP 500.
C22_OnlyStorageAborts ==
    /\ bpc \in {"read", "pipeline", "cleanup", "after", "store"} =>
          response = NoResponse
    /\ bpc = "done" =>
          /\ fileNo = nUploaded + 1
          /\ response.kind \in {"ok", "error"}
          /\ response.kind = "error" => all_invoices # <<>>
          /\ response.kind = "ok" =>
                /\ response.processed_files = processed_files
                /\ response.failed_files = failed_files
                /\ response.invoice_count = Len(all_invoices)

\* The first file of two could not be read, the second gave an invoice, and
\* the request ended with a response counting one failed and one processed.
C22_Witness ==
    /\ bpc = "done" /\ nUploaded = 2
    /\ invoked = <<0, 1>> /\ yielded[2] >= 1
    /\ response.kind = "ok"
    /\ response.failed_files = 1 /\ response.processed_files = 1

\* The invoices l are in the stored list.
Stored(l) ==
    \A j \in 1..Len(l) : \E k \in 1..Len(cdb.invoices) : cdb.invoices[k] = l[j]

\* C24: no lost update: when two concurrent store_invoices calls for the
\* same user have both returned successfully, the stored list contains the
\* invoices of both, also when there was no document at the start.
C24_NoLostUpdate ==
    (\A c \in Callers : callers[c].sret = "returned") =>
        /\ cdb.present
        /\ \A c \in Callers : Stored(callers[c].invoices)

\* C25: across concurrent get_cosmos_manager calls, initialize succeeds at
\* most once, every caller that is given an instance is given the same one,
\* and while no initialization has succeeded the singleton is unset.
C25_SingletonManager ==
    /\ created <= 1
    /\ \A g \in Getters : \A h \in Getters :
          (getters[g].pc = "done" /\ getters[h].pc = "done") =>
              getters[g].got = getters[h].got
    /\ created = 0 => manager = 0

====
